---- MODULE Spec2Model ----
(***************************************************************************)
(* Model of the audio converter's download orchestration (src/main.py):    *)
(* MainWindow.start_download, DownloadWorker, PlaylistDownloadWorker, the  *)
(* playlist selection dialog and the download history.                     *)
(*                                                                         *)
(* A worker thread's signals are delivered to the window's slots in the    *)
(* order they are emitted; a slot's effect on the window is taken together *)
(* with the emission.  The collaborator (yt_dlp) is the environment: each  *)
(* probe and each fetch returns or raises as it pleases.                   *)
(***************************************************************************)
EXTENDS Integers, Sequences, FiniteSets, TLC

\* ------------------------------------------------------------- bounds
\* how many downloads start_download accepts in one behaviour
MaxRuns == 2
\* longest entry list a probe returns
MaxEntries == 2
\* most calls of the progress hook during one download (updatemain.py)
MaxHooks == 2
\* longest playlist of the single playlist runs
MaxCollection == 3
\* longest playlist title, in characters, of the folder runs
MaxTitleLen == 3
\* most entries of a history file found at launch
MaxStored == 2
\* most readings of the clock by the history widget on its own
MaxClock == 3

\* ------------------------------------------------- program constants
\* DownloadWorker.retry_delay
retry_delay == 5
\* max_retries read from the wrong field
max_retries_as_delay == retry_delay
\* DownloadWorker.max_retries
max_retries == 3

\* ------------------------------------------------------ value spaces
\* texts of the URL field, already stripped; "" is the empty field
Urls == {"u1"}
\* str(e) of what the collaborator raises
Errs == {"network down"}
\* an entry of a flat playlist is known by its id; NoId is an entry without one
NoId == ""
VideoIds == {"a"}
EntryLists == UNION {[1..n -> VideoIds \cup {NoId}] : n \in 0..MaxEntries}
\* info.get('title', 'Playlist'): a text is the sequence of its characters
Titles == { <<".", "a", ":", "b", " ">> }
\* the playlist_title None
NoTitle == <<"None">>
\* the directory of the directory field, as the sequence of its path segments
OutputDir == <<"out">>
\* MainWindow.worker: the window holds one worker at a time
Slots == {1}
\* the threads of the window whose user starts downloads during a download
Threads == {1, 2}

VARIABLES
    url_input,      \* MainWindow.url_input.text().strip()
    format_combo,   \* MainWindow.format_combo.currentText()
    quality_combo,  \* MainWindow.quality_combo.currentText()
    download_btn,   \* MainWindow.download_btn.isEnabled()
    status_label,   \* MainWindow.status_label.text(), by kind of message
    history_file,   \* download_history.json as it lies on the disk
    history_list,   \* DownloadHistoryWidget.history_list, the rows top down
    clock,          \* the readings of datetime.now() made so far
    uncaught,       \* the exception that left a slot or a constructor, if any
    dirs,           \* the directories that exist under the output directory
    workers,        \* the worker threads, one per slot
    dialogs,        \* open PlaylistSelectionDialogs, innermost last
    started         \* downloads accepted so far

vars == <<url_input, format_combo, quality_combo, download_btn, status_label, history_file, history_list,
          clock, uncaught, dirs, workers, dialogs, started>>

\* ------------------------------------------------------------ events
\* A signal as emitted: sig is the signal, msg the kind of its text, index /
\* total / num / text the values formatted into it.  item is bookkeeping: the
\* index of the download_with_retry call that emitted it, 0 outside one.
Ev(sig, msg, index, total, num, text, item) ==
    [sig |-> sig, msg |-> msg, index |-> index, total |-> total, num |-> num,
     text |-> text, item |-> item]
EvProcessing(index, total, attempt) ==
    Ev("progress", "Processing video", index, total, attempt + 1, "", index)
EvRetry(e, index) ==
    Ev("retry_signal", "", 0, 0, retry_delay, e, index)
EvFailed(index, e) ==
    Ev("error", "Failed to download video", index, 0, max_retries, e, index)
EvError(e) ==
    Ev("error", "str(e)", 0, 0, 0, e, 0)
EvNoEntries ==
    Ev("error", "No entries found in playlist", 0, 0, 0, "", 0)
EvPlaylistInfo ==
    Ev("playlist_info", "", 0, 0, 0, "", 0)
EvComplete ==
    Ev("progress", "Playlist download complete", 0, 0, 0, "", 0)
EvSummary(k) ==
    Ev("progress", "Playlist download completed with errors", 0, 0, k, "", 0)
EvFinished ==
    Ev("finished", "", 0, 0, 0, "", 0)

\* ----------------------------------------------------------- workers
\* Bookkeeping of one selected entry: the fetches made for it, what they
\* raised, how many returned, the delays slept, and whether the loop passed
\* it over.
NewItem == [fetches |-> 0, raised |-> <<>>, returned |-> 0, slept |-> 0,
            skipped |-> FALSE]

\* A free slot.  cls .. successful_downloads are the worker's fields and the
\* locals of its run(); log .. hist_adds are bookkeeping of the run the worker
\* belongs to: the signals emitted, where this worker's signals start in the
\* log, the probes made, how the probe and the dialog ended, the per-item
\* records, the history entries added for the run, the calls of the
\* progress hook, and what the dialog was accepted with: the title of the
\* playlist, the state of the folder box and the entries whose boxes were
\* ticked.
NoWorker ==
    [cls |-> "none", pc |-> "none", url |-> "", quality |-> "", format |-> "",
     selected_indices |-> <<>>,
     playlist_title |-> NoTitle, outtmpl |-> <<>>,
     type |-> "none", entries |-> <<>>,
     selected_entries |-> <<>>, index |-> 0, total |-> 0, attempt |-> 0,
     ret |-> "none", successful_downloads |-> 0,
     log |-> <<>>, first |-> 0, probes |-> 0, probe_error |-> FALSE,
     decision |-> "none", items |-> <<>>, hist_adds |-> 0, hooks |-> 0,
     info_title |-> NoTitle, create_folder |-> FALSE, checked_entries |-> <<>>]

\* DownloadWorker.__init__; outtmpl is the directory of the output template
NewDownloadWorker(url, output_dir, quality, format_) ==
    [NoWorker EXCEPT !.cls = "DownloadWorker", !.pc = "probe", !.url = url,
                     !.quality = quality, !.format = format_,
                     !.outtmpl = output_dir]

\* sanitize_filename, lines 205-207: each invalid character becomes '_'
invalid_chars == {"<", ">", ":", "\"", "/", "\\", "|", "?", "*"}
replace_invalid(filename) ==
    [i \in 1..Len(filename) |->
        IF filename[i] \in invalid_chars THEN "_" ELSE filename[i]]

\* lstrip taking one character at most
lstrip_once(text) ==
    IF text # <<>> /\ Head(text) \in {".", " "} THEN Tail(text) ELSE text
\* str.strip('. '), line 209: dots and spaces go from both ends
RECURSIVE lstrip(_)
lstrip(text) ==
    IF text # <<>> /\ Head(text) \in {".", " "} THEN lstrip(Tail(text)) ELSE text
RECURSIVE rstrip(_)
rstrip(text) ==
    IF text # <<>> /\ text[Len(text)] \in {".", " "}
    THEN rstrip(SubSeq(text, 1, Len(text) - 1)) ELSE text

sanitize_filename(filename) == rstrip(lstrip(replace_invalid(filename)))

\* os.path.join(output_dir, name) for a name without separators: an empty
\* name names the directory itself
path_join(output_dir, name) ==
    IF name = <<>> THEN output_dir ELSE Append(output_dir, name)

\* MakesFolder with no title ever making a folder
MakesFolder_never(playlist_title) == FALSE
\* line 188: a title that is None or empty makes no folder
MakesFolder(playlist_title) == playlist_title # NoTitle /\ playlist_title # <<>>

\* PlaylistDownloadWorker.__init__, lines 185-200.  The playlist worker takes
\* the slot of the worker that probed the playlist, which has returned from
\* run(); the run's log goes on.
NewPlaylistDownloadWorker(old, url, output_dir, quality, format_, selected_indices, playlist_title) ==
    [NoWorker EXCEPT !.cls = "PlaylistDownloadWorker", !.pc = "probe",
                     !.url = url, !.quality = quality, !.format = format_,
                     !.selected_indices = selected_indices,
                     !.playlist_title =
                         IF MakesFolder(playlist_title)
                         THEN sanitize_filename(playlist_title) ELSE NoTitle,
                     !.outtmpl =
                         IF MakesFolder(playlist_title)
                         THEN path_join(output_dir, sanitize_filename(playlist_title))
                         ELSE output_dir,
                     !.log = old.log, !.first = Len(old.log),
                     !.decision = IF selected_indices = <<>> THEN "empty"
                                  ELSE "accepted"]

Alive(w) == workers[w].pc \notin {"none", "done"}

Emit(rec, ev) == [rec EXCEPT !.log = Append(@, ev)]
EmitAll(rec, evs) == [rec EXCEPT !.log = @ \o evs]


\* ------------------------------------------------------ history store
\* download_history.json by what reading it gives:
\*   "missing"      no such file: open raises FileNotFoundError
\*   "invalid"      text that is not JSON: json.load raises JSONDecodeError
\*   "undecodable"  bytes that are not text: reading raises UnicodeDecodeError
\*   "null"         the JSON text null: json.load returns None
\*   "json"         a JSON list of entries, data
FileKinds == {"missing", "invalid", "undecodable", "null", "json"}
NoFile == [kind |-> "missing", data |-> <<>>]
BadFile(kind) == [kind |-> kind, data |-> <<>>]
JsonFile(history) == [kind |-> "json", data |-> history]

QUALITY_PRESETS ==
    ("High Quality (320kbps)" :> "320") @@ ("Standard Quality (192kbps)" :> "192") @@
    ("Medium Quality (128kbps)" :> "128") @@ ("Low Quality (96kbps)" :> "96")
FORMAT_PRESETS ==
    ("MP3" :> "mp3") @@ ("M4A" :> "m4a") @@ ("WAV" :> "wav") @@
    ("FLAC" :> "flac") @@ ("OPUS" :> "opus")
\* the combo boxes as setup_ui leaves them, lines 380-381 and 388-389
DefaultFormat == "MP3"
DefaultQuality == "High Quality (320kbps)"

\* the item add_to_history builds, lines 277-283; the timestamp is known by
\* which reading of the clock it is
HistoryItem(timestamp, url, format_, quality) ==
    [timestamp |-> timestamp, url |-> url, format |-> format_, quality |-> quality]

\* the row of the list widget, lines 286-289 and 303-305:
\* f"{timestamp} - {format_} ({quality}kbps)\n{url}"
Row(timestamp, format_, quality, url) == <<timestamp, " - ", format_, quality, url>>
RowOf(item) == Row(item.timestamp, item.format, item.quality, item.url)

Reverse(seq) == [i \in 1..Len(seq) |-> seq[Len(seq) + 1 - i]]

\* load_history_from_file, lines 307-312: what the call returns or raises;
\* a missing file and text that is not JSON give the empty list
load_history_from_file(file) ==
    CASE file.kind = "json" -> [raises |-> "", is_list |-> TRUE, history |-> file.data]
      [] file.kind \in {"missing", "invalid"} ->
             [raises |-> "", is_list |-> TRUE, history |-> <<>>]
      [] file.kind = "null" -> [raises |-> "", is_list |-> FALSE, history |-> <<>>]
      [] file.kind = "undecodable" ->
             [raises |-> "UnicodeDecodeError", is_list |-> FALSE, history |-> <<>>]

\* add_to_history with the new item put in front of the stored ones
add_to_history_prepend(url, format_, quality) ==
    LET item == HistoryItem(clock, url, format_, quality)
        loaded == load_history_from_file(history_file)
    IN
    /\ clock' = clock + 1
    /\ history_list' = <<Row(clock, format_, quality, url)>> \o history_list
    /\ IF loaded.raises # ""
       THEN uncaught' = loaded.raises /\ UNCHANGED history_file
       ELSE IF ~loaded.is_list
       THEN uncaught' = "AttributeError" /\ UNCHANGED history_file
       ELSE /\ history_file' = JsonFile(<<item>> \o loaded.history)
            /\ UNCHANGED uncaught
\* DownloadHistoryWidget.add_to_history, lines 276-294: the row goes on top
\* of the list widget, then the file is read, appended to and written back
add_to_history(url, format_, quality) ==
    LET item == HistoryItem(clock, url, format_, quality)
        loaded == load_history_from_file(history_file)
    IN
    /\ clock' = clock + 1
    /\ history_list' = <<Row(clock, format_, quality, url)>> \o history_list
    /\ IF loaded.raises # ""
       THEN uncaught' = loaded.raises /\ UNCHANGED history_file
       ELSE IF ~loaded.is_list
       THEN uncaught' = "AttributeError" /\ UNCHANGED history_file
       ELSE /\ history_file' = JsonFile(Append(loaded.history, item))
            /\ UNCHANGED uncaught

\* DownloadHistoryWidget.clear_history, lines 296-298
clear_history ==
    /\ history_list' = <<>>
    /\ history_file' = JsonFile(<<>>)
    /\ UNCHANGED <<clock, uncaught>>

\* DownloadHistoryWidget.load_history as __init__ calls it on an empty list
\* widget, lines 300-305: the rows it leaves and the exception it raises
load_history(file) ==
    LET loaded == load_history_from_file(file) IN
    IF loaded.raises # "" THEN [rows |-> <<>>, raises |-> loaded.raises]
    ELSE IF ~loaded.is_list THEN [rows |-> <<>>, raises |-> "TypeError"]
    ELSE [rows |-> [i \in 1..Len(loaded.history) |-> RowOf(Reverse(loaded.history)[i])],
          raises |-> ""]

\* ------------------------------------------------- the window's slots
update_progress(message) ==
    /\ status_label' = message
    /\ UNCHANGED <<url_input, format_combo, quality_combo, download_btn, history_file, history_list, clock, uncaught>>

show_retry_message ==
    /\ status_label' = "Error. Retrying"
    /\ UNCHANGED <<url_input, format_combo, quality_combo, download_btn, history_file, history_list, clock, uncaught>>

download_error ==
    /\ status_label' = "Error"
    /\ download_btn' = TRUE
    /\ UNCHANGED <<url_input, format_combo, quality_combo, history_file, history_list, clock, uncaught>>

\* download_finished recording the combo boxes' first values
download_finished_defaults ==
    /\ status_label' = "Conversion complete!"
    /\ download_btn' = TRUE
    /\ add_to_history(url_input, FORMAT_PRESETS[DefaultFormat],
                      QUALITY_PRESETS[DefaultQuality])
    /\ url_input' = ""
    /\ UNCHANGED <<format_combo, quality_combo>>
\* MainWindow.download_finished, lines 615-628
download_finished ==
    /\ status_label' = "Conversion complete!"
    /\ download_btn' = TRUE
    /\ add_to_history(url_input, FORMAT_PRESETS[format_combo],
                      QUALITY_PRESETS[quality_combo])
    /\ url_input' = ""
    /\ UNCHANGED <<format_combo, quality_combo>>

NoUiChange ==
    UNCHANGED <<url_input, format_combo, quality_combo, download_btn, status_label, history_file, history_list, clock, uncaught>>

\* the directories a new playlist worker leaves: os.makedirs(playlist_dir,
\* exist_ok=True) at line 192 when it makes a folder
makedirs(output_dir, playlist_title) ==
    IF MakesFolder(playlist_title)
    THEN dirs \cup {path_join(output_dir, sanitize_filename(playlist_title))}
    ELSE dirs

\* --------------------------------------------------- the user's input
\* the Clear History button
ClickClear ==
    /\ dialogs = <<>>
    /\ uncaught = ""
    /\ clear_history
    /\ UNCHANGED <<url_input, format_combo, quality_combo, download_btn, status_label, dirs, workers,
                   dialogs, started>>

EditUrl(u) ==
    /\ dialogs = <<>>
    /\ u # url_input
    /\ url_input' = u
    /\ UNCHANGED <<format_combo, quality_combo, download_btn, status_label, history_file, history_list, clock, uncaught,
                   dirs, workers, dialogs, started>>

\* the user picks another entry of a combo box
FormatChoices == {"MP3", "FLAC"}
QualityChoices == {"High Quality (320kbps)", "Low Quality (96kbps)"}
SelectFormat(name) ==
    /\ dialogs = <<>>
    /\ name # format_combo
    /\ format_combo' = name
    /\ UNCHANGED <<url_input, quality_combo, download_btn, status_label,
                   history_file, history_list, clock, uncaught, dirs, workers,
                   dialogs, started>>
SelectQuality(name) ==
    /\ dialogs = <<>>
    /\ name # quality_combo
    /\ quality_combo' = name
    /\ UNCHANGED <<url_input, format_combo, download_btn, status_label,
                   history_file, history_list, clock, uncaught, dirs, workers,
                   dialogs, started>>

\* the threads no worker runs on
FreeSlots == {w \in DOMAIN workers : ~Alive(w)}

\* MainWindow.start_download; dir_ok: the directory field names a directory
start_download(dir_ok) ==
    IF url_input = "" \/ ~dir_ok
    THEN /\ status_label' = "Please enter a valid URL and output directory"
         /\ UNCHANGED <<url_input, format_combo, quality_combo, download_btn, history_file, history_list, clock, uncaught,
                        workers, started>>
    ELSE /\ started < MaxRuns
         \* a thread is free for the new worker; with one thread the user asks
         \* for a download only when none is running
         /\ FreeSlots # {}
         /\ LET w == CHOOSE x \in FreeSlots : \A y \in FreeSlots : x <= y
            IN  workers' = [workers EXCEPT ![w] =
                                NewDownloadWorker(url_input, OutputDir,
                                                  QUALITY_PRESETS[quality_combo],
                                                  FORMAT_PRESETS[format_combo])]
         /\ started' = started + 1
         /\ download_btn' = FALSE
         /\ status_label' = "Starting download..."
         /\ UNCHANGED <<url_input, format_combo, quality_combo, history_file, history_list, clock, uncaught>>

\* the Convert button, which only an enabled button takes
ClickConvert ==
    /\ dialogs = <<>>
    /\ download_btn
    /\ \E dir_ok \in BOOLEAN : start_download(dir_ok)
    /\ UNCHANGED <<dirs, dialogs>>

\* Enter in the URL field (setup_shortcuts), whatever the button's state
ReturnPressed ==
    /\ dialogs = <<>>
    /\ \E dir_ok \in BOOLEAN : start_download(dir_ok)
    /\ UNCHANGED <<dirs, dialogs>>

\* ------------------------------------------------ download_with_retry
\* CanRetry with the last attempt retried too
CanRetry_offByOne(attempt) == attempt < max_retries
\* line 144: a failed attempt is retried unless it was the last
CanRetry(attempt) == attempt < max_retries - 1

\* the call download_with_retry(video_url, index, total) begins
CallDownloadWithRetry(rec, index, total) ==
    [rec EXCEPT !.index = index, !.total = total, !.attempt = 0, !.pc = "attempt"]

\* AttemptSignals with the entry numbered by its row in the dialog
AttemptSignals_dialogRow(r) ==
    <<EvProcessing(IF r.selected_indices # <<>>
                   THEN r.selected_indices[r.index] + 1 ELSE r.index,
                   r.total, r.attempt)>>
\* AttemptSignals with the progress emitted before the first attempt only
AttemptSignals_firstOnly(r) ==
    IF r.attempt = 0 THEN <<EvProcessing(r.index, r.total, r.attempt)>> ELSE <<>>
\* lines 137-140: what an attempt emits before it fetches
AttemptSignals(r) == <<EvProcessing(r.index, r.total, r.attempt)>>

\* lines 137-141: the progress signal, then ydl.download is called
BeginAttempt(w) ==
    LET r == workers[w] IN
    /\ r.pc = "attempt"
    /\ workers' = [workers EXCEPT ![w] =
           EmitAll([r EXCEPT !.pc = "fetching",
                             !.items[r.index].fetches = @ + 1],
                   AttemptSignals(r))]
    /\ update_progress("Processing video")
    /\ UNCHANGED <<dirs, dialogs, started>>

\* FetchReturns without the return: the loop goes on to the next attempt
FetchReturns_goesOn(w) ==
    LET r == workers[w]
        q == [r EXCEPT !.items[r.index].returned = @ + 1]
    IN
    /\ r.pc = "fetching"
    /\ workers' = [workers EXCEPT ![w] =
           IF r.attempt + 1 < max_retries
           THEN [q EXCEPT !.attempt = @ + 1, !.pc = "attempt"]
           ELSE [q EXCEPT !.ret = "None", !.pc = "returned"]]
    /\ NoUiChange
    /\ UNCHANGED <<dirs, dialogs, started>>
\* line 142: ydl.download returned, and download_with_retry returns True
FetchReturns(w) ==
    LET r == workers[w] IN
    /\ r.pc = "fetching"
    /\ workers' = [workers EXCEPT ![w] =
           [r EXCEPT !.pc = "returned", !.ret = "True",
                     !.items[r.index].returned = @ + 1]]
    /\ NoUiChange
    /\ UNCHANGED <<dirs, dialogs, started>>

\* lines 143-149: ydl.download raised e
FetchRaises(w, e) ==
    LET r == workers[w]
        q == [r EXCEPT !.items[r.index].raised = Append(@, e)]
    IN
    /\ r.pc = "fetching"
    /\ IF CanRetry(r.attempt)
       THEN /\ workers' = [workers EXCEPT ![w] =
                   Emit([q EXCEPT !.pc = "sleep"], EvRetry(e, r.index))]
            /\ show_retry_message
       ELSE /\ workers' = [workers EXCEPT ![w] =
                   Emit([q EXCEPT !.pc = "returned", !.ret = "False"],
                        EvFailed(r.index, e))]
            /\ download_error
    /\ UNCHANGED <<dirs, dialogs, started>>

\* Sleep with the delay spent going on to the next entry of the playlist
Sleep_nextEntry(w) ==
    LET r == workers[w]
        q == [r EXCEPT !.items[r.index].slept = @ + 1]
    IN
    /\ r.pc = "sleep"
    /\ workers' = [workers EXCEPT ![w] =
           IF r.cls = "PlaylistDownloadWorker" /\ r.index < r.total
           THEN [q EXCEPT !.index = @ + 1, !.pc = "loop"]
           ELSE [q EXCEPT !.attempt = @ + 1, !.pc = "attempt"]]
    /\ NoUiChange
    /\ UNCHANGED <<dirs, dialogs, started>>
\* line 146 and the loop head at line 135: the delay, then the next attempt;
\* a loop that runs out returns None
Sleep(w) ==
    LET r == workers[w]
        q == [r EXCEPT !.items[r.index].slept = @ + 1]
    IN
    /\ r.pc = "sleep"
    /\ workers' = [workers EXCEPT ![w] =
           IF r.attempt + 1 < max_retries
           THEN [q EXCEPT !.attempt = @ + 1, !.pc = "attempt"]
           ELSE [q EXCEPT !.ret = "None", !.pc = "returned"]]
    /\ NoUiChange
    /\ UNCHANGED <<dirs, dialogs, started>>


\* ------------------------------------------------- DownloadWorker.run
\* DownloadProbeRaises with the error caught around the probe alone: the
\* download follows
DownloadProbeRaises_goesOn(w, e) ==
    LET r == workers[w] IN
    /\ r.cls = "DownloadWorker" /\ r.pc = "probe"
    /\ workers' = [workers EXCEPT ![w] =
           CallDownloadWithRetry(
               Emit([r EXCEPT !.probes = @ + 1, !.probe_error = TRUE,
                              !.items = <<NewItem>>],
                    EvError(e)),
               1, 1)]
    /\ download_error
    /\ UNCHANGED <<dirs, dialogs, started>>
\* lines 152-155, 167-168: extract_info raised e
DownloadProbeRaises(w, e) ==
    LET r == workers[w] IN
    /\ r.cls = "DownloadWorker" /\ r.pc = "probe"
    /\ workers' = [workers EXCEPT ![w] =
           Emit([r EXCEPT !.pc = "done", !.probes = @ + 1, !.probe_error = TRUE],
                EvError(e))]
    /\ download_error
    /\ UNCHANGED <<dirs, dialogs, started>>

\* DownloadProbePlaylist without the return at line 161: the worker goes on to
\* download the playlist URL while the dialog is open
DownloadProbePlaylist_noReturn(w, entries, title) ==
    LET r == workers[w] IN
    /\ r.cls = "DownloadWorker" /\ r.pc = "probe"
    /\ workers' = [workers EXCEPT ![w] =
           CallDownloadWithRetry(
               Emit([r EXCEPT !.probes = @ + 1, !.type = "playlist",
                              !.entries = entries, !.decision = "asked",
                              !.items = <<NewItem>>],
                    EvPlaylistInfo),
               1, 1)]
    /\ dialogs' = Append(dialogs, [slot |-> w, entries |-> entries, title |-> title])
    /\ NoUiChange
    /\ UNCHANGED <<dirs, started>>
\* lines 157-161: the worker r after its probe found a playlist, with
\* playlist_info emitted and run() returned
ProbedPlaylist(r, entries) ==
    Emit([r EXCEPT !.pc = "done", !.probes = @ + 1, !.type = "playlist",
                   !.entries = entries, !.decision = "asked"],
         EvPlaylistInfo)
\* line 639: the dialog show_playlist_selection opens on the info
DialogOn(w, entries, title) == [slot |-> w, entries |-> entries, title |-> title]

\* lines 157-161: the probe found a playlist; playlist_info is emitted, run()
\* returns, and show_playlist_selection (line 639) opens the dialog
DownloadProbePlaylist(w, entries, title) ==
    LET r == workers[w] IN
    /\ r.cls = "DownloadWorker" /\ r.pc = "probe"
    /\ workers' = [workers EXCEPT ![w] = ProbedPlaylist(r, entries)]
    /\ dialogs' = Append(dialogs, DialogOn(w, entries, title))
    /\ NoUiChange
    /\ UNCHANGED <<dirs, started>>

\* lines 162-164: the probe found a single video
DownloadProbeSingle(w) ==
    LET r == workers[w] IN
    /\ r.cls = "DownloadWorker" /\ r.pc = "probe"
    /\ workers' = [workers EXCEPT ![w] =
           CallDownloadWithRetry(
               [r EXCEPT !.probes = @ + 1, !.type = "video", !.items = <<NewItem>>],
               1, 1)]
    /\ NoUiChange
    /\ UNCHANGED <<dirs, dialogs, started>>

\* line 165: download_with_retry returned, whatever it returned
DownloadFinish(w) ==
    LET r == workers[w] IN
    /\ r.cls = "DownloadWorker" /\ r.pc = "returned"
    /\ workers' = [workers EXCEPT ![w] =
           Emit([r EXCEPT !.pc = "done", !.hist_adds = @ + 1], EvFinished)]
    /\ download_finished
    /\ UNCHANGED <<dirs, dialogs, started>>

\* ----------------------------------------- PlaylistSelectionDialog
\* get_selected_from with the rows gone through from the last to the first
RECURSIVE get_selected_from_descending(_, _)
get_selected_from_descending(checked, i) ==
    IF i >= Len(checked) THEN <<>>
    ELSE get_selected_from_descending(checked, i + 1) \o
         (IF checked[i + 1] THEN <<i>> ELSE <<>>)
RECURSIVE get_selected_from(_, _)
\* get_selected_indices from row i (0-based) on: the checked rows, in row order
get_selected_from(checked, i) ==
    IF i >= Len(checked) THEN <<>>
    ELSE (IF checked[i + 1] THEN <<i>> ELSE <<>>) \o get_selected_from(checked, i + 1)

get_selected_indices(checked) == get_selected_from(checked, 0)

\* NoSelection without the check
NoSelection_never(selected_indices) == FALSE
\* line 642
NoSelection(selected_indices) == selected_indices = <<>>

\* lines 640-671: the innermost dialog is accepted with the rows of `checked`
\* ticked and the folder box as create_folder.  The window keeps the indices
\* only; with `keep` the run's bookkeeping notes the ticked entries as well.
AcceptDialog(checked, create_folder, keep) ==
    /\ dialogs # <<>>
    /\ LET d == dialogs[Len(dialogs)]
           selected_indices == get_selected_indices(checked)
       IN
       /\ Len(checked) = Len(d.entries)
       /\ IF NoSelection(selected_indices)
          THEN /\ status_label' = "No songs selected"
               /\ download_btn' = TRUE
               /\ workers' = [workers EXCEPT ![d.slot].decision = "empty"]
               /\ UNCHANGED <<url_input, format_combo, quality_combo, history_file, history_list, clock, uncaught, dirs>>
          ELSE LET playlist_title == IF create_folder THEN d.title ELSE NoTitle IN
               /\ workers' = [workers EXCEPT ![d.slot] =
                      [NewPlaylistDownloadWorker(@, url_input, OutputDir,
                                                 QUALITY_PRESETS[quality_combo],
                                                 FORMAT_PRESETS[format_combo],
                                                 selected_indices, playlist_title)
                           EXCEPT !.info_title = d.title,
                                  !.create_folder = create_folder,
                                  !.checked_entries =
                                      IF keep
                                      THEN [k \in 1..Len(selected_indices) |->
                                               d.entries[selected_indices[k] + 1]]
                                      ELSE <<>>]]
               /\ dirs' = makedirs(OutputDir, playlist_title)
               /\ NoUiChange
    /\ dialogs' = SubSeq(dialogs, 1, Len(dialogs) - 1)
    /\ UNCHANGED started

DialogAccept(checked, create_folder) == AcceptDialog(checked, create_folder, FALSE)
DialogAcceptKeeping(checked, create_folder) == AcceptDialog(checked, create_folder, TRUE)

\* lines 640-657 and 188-192: the dialog is accepted with entries ticked and
\* the folder box on, and os.makedirs raises e in the constructor of the
\* playlist worker (the directory cannot be written, a file has the folder's
\* name).  The exception leaves show_playlist_selection: no worker is
\* started and nothing of the window is touched.
DialogAcceptRaises(checked, e) ==
    /\ dialogs # <<>>
    /\ LET d == dialogs[Len(dialogs)]
           selected_indices == get_selected_indices(checked)
       IN
       /\ Len(checked) = Len(d.entries)
       /\ ~NoSelection(selected_indices)
       /\ MakesFolder(d.title)
       /\ workers' = [workers EXCEPT ![d.slot].decision = "raised"]
    /\ uncaught' = e
    /\ dialogs' = SubSeq(dialogs, 1, Len(dialogs) - 1)
    /\ UNCHANGED <<url_input, format_combo, quality_combo, download_btn, status_label,
                   history_file, history_list, clock, dirs, started>>

\* lines 672-675: the dialog is cancelled or closed
DialogReject ==
    /\ dialogs # <<>>
    /\ LET d == dialogs[Len(dialogs)] IN
       workers' = [workers EXCEPT ![d.slot].decision = "cancelled"]
    /\ download_btn' = TRUE
    /\ status_label' = "Download cancelled"
    /\ dialogs' = SubSeq(dialogs, 1, Len(dialogs) - 1)
    /\ UNCHANGED <<url_input, format_combo, quality_combo, history_file, history_list, clock, uncaught, dirs, started>>

\* ----------------------------------------- PlaylistDownloadWorker.run
\* lines 213-215, 249-250: extract_info raised e
PlaylistProbeRaises(w, e) ==
    LET r == workers[w] IN
    /\ r.cls = "PlaylistDownloadWorker" /\ r.pc = "probe"
    /\ workers' = [workers EXCEPT ![w] =
           Emit([r EXCEPT !.pc = "done", !.probes = @ + 1, !.probe_error = TRUE],
                EvError(e))]
    /\ download_error
    /\ UNCHANGED <<dirs, dialogs, started>>

\* line 232
HasId(video_id) == video_id # NoId

\* lines 215-228: extract_info returned `entries`; no entries is an error, a
\* selected index past the end raises IndexError, else the loop begins
PlaylistProbeReturns(w, entries) ==
    LET r == workers[w]
        q == [r EXCEPT !.probes = @ + 1, !.type = "playlist"]
        n == Len(r.selected_indices)
    IN
    /\ r.cls = "PlaylistDownloadWorker" /\ r.pc = "probe"
    /\ IF entries = <<>>
       THEN /\ workers' = [workers EXCEPT ![w] =
                   Emit([q EXCEPT !.pc = "done"], EvNoEntries)]
            /\ download_error
       ELSE IF \E k \in 1..n : r.selected_indices[k] >= Len(entries)
       THEN /\ workers' = [workers EXCEPT ![w] =
                   Emit([q EXCEPT !.pc = "done"], EvError("list index out of range"))]
            /\ download_error
       ELSE /\ workers' = [workers EXCEPT ![w] =
                   [q EXCEPT !.selected_entries =
                                 [k \in 1..n |-> entries[r.selected_indices[k] + 1]],
                             !.items = [k \in 1..n |-> NewItem],
                             !.successful_downloads = 0,
                             !.index = 1, !.total = n, !.pc = "loop"]]
            /\ NoUiChange
    /\ UNCHANGED <<dirs, dialogs, started>>

\* lines 231-233: an entry without an id is passed over
PlaylistSkip(w) ==
    LET r == workers[w] IN
    /\ r.cls = "PlaylistDownloadWorker" /\ r.pc = "loop"
    /\ r.index <= Len(r.selected_entries)
    /\ ~HasId(r.selected_entries[r.index])
    /\ workers' = [workers EXCEPT ![w] =
           [r EXCEPT !.index = @ + 1, !.items[r.index].skipped = TRUE]]
    /\ NoUiChange
    /\ UNCHANGED <<dirs, dialogs, started>>

\* lines 235-237: download_with_retry is called for the entry
PlaylistEnter(w) ==
    LET r == workers[w] IN
    /\ r.cls = "PlaylistDownloadWorker" /\ r.pc = "loop"
    /\ r.index <= Len(r.selected_entries)
    /\ HasId(r.selected_entries[r.index])
    /\ workers' = [workers EXCEPT ![w] =
           CallDownloadWithRetry(r, r.index, Len(r.selected_entries))]
    /\ NoUiChange
    /\ UNCHANGED <<dirs, dialogs, started>>

\* AfterItem with the loop left at the first failure
AfterItem_break(r) ==
    [r EXCEPT !.successful_downloads = IF r.ret = "True" THEN @ + 1 ELSE @,
              !.index = IF r.ret = "True" THEN @ + 1 ELSE Len(r.selected_entries) + 1,
              !.pc = "loop"]
\* lines 237-238 and the loop head at 229: a truthy return is counted, and the
\* loop goes on to the next entry
AfterItem(r) ==
    [r EXCEPT !.successful_downloads = IF r.ret = "True" THEN @ + 1 ELSE @,
              !.index = @ + 1,
              !.pc = "loop"]

PlaylistItemReturn(w) ==
    LET r == workers[w] IN
    /\ r.cls = "PlaylistDownloadWorker" /\ r.pc = "returned"
    /\ workers' = [workers EXCEPT ![w] = AfterItem(r)]
    /\ NoUiChange
    /\ UNCHANGED <<dirs, dialogs, started>>

\* ErrorCount with the successes reported
ErrorCount_successes(r) == r.successful_downloads
\* line 244: the number the summary message carries
ErrorCount(r) == Len(r.selected_entries) - r.successful_downloads

\* lines 240-247: the loop is over; the summary progress, then finished
PlaylistExit(w) ==
    LET r == workers[w] IN
    /\ r.cls = "PlaylistDownloadWorker" /\ r.pc = "loop"
    /\ r.index > Len(r.selected_entries)
    /\ workers' = [workers EXCEPT ![w] =
           Emit(Emit([r EXCEPT !.pc = "done", !.hist_adds = @ + 1],
                     IF r.successful_downloads = Len(r.selected_entries)
                     THEN EvComplete ELSE EvSummary(ErrorCount(r))),
                EvFinished)]
    /\ download_finished
    /\ UNCHANGED <<dirs, dialogs, started>>

\* ------------------------------------------------------ specification
Init ==
    /\ url_input = ""
    /\ format_combo = DefaultFormat
    /\ quality_combo = DefaultQuality
    /\ download_btn = TRUE
    /\ status_label = "Ready"
    /\ history_file = NoFile
    /\ history_list = load_history(NoFile).rows
    /\ clock = 0
    /\ uncaught = load_history(NoFile).raises
    /\ dirs = {OutputDir}
    /\ workers = [w \in Slots |-> NoWorker]
    /\ dialogs = <<>>
    /\ started = 0

Next ==
    \/ \E u \in Urls \cup {""} : EditUrl(u)
    \/ ClickConvert
    \/ ReturnPressed
    \/ ClickClear
    \/ \E checked \in UNION {[1..n -> BOOLEAN] : n \in 0..MaxEntries},
          create_folder \in BOOLEAN : DialogAccept(checked, create_folder)
    \/ \E checked \in UNION {[1..n -> BOOLEAN] : n \in 0..MaxEntries} :
          DialogAcceptRaises(checked, "OSError")
    \/ DialogReject
    \/ \E w \in Slots :
          \/ \E e \in Errs : DownloadProbeRaises(w, e)
          \/ \E entries \in EntryLists, title \in Titles :
                DownloadProbePlaylist(w, entries, title)
          \/ DownloadProbeSingle(w)
          \/ BeginAttempt(w)
          \/ FetchReturns(w)
          \/ \E e \in Errs : FetchRaises(w, e)
          \/ Sleep(w)
          \/ DownloadFinish(w)
          \/ \E e \in Errs : PlaylistProbeRaises(w, e)
          \/ \E entries \in EntryLists : PlaylistProbeReturns(w, entries)
          \/ PlaylistSkip(w)
          \/ PlaylistEnter(w)
          \/ PlaylistItemReturn(w)
          \/ PlaylistExit(w)

Spec == Init /\ [][Next]_vars

\* ------------------------------------------------------------ progress
\* A worker thread that can take a step takes one: every call of the
\* collaborator returns or raises, and sleep ends.
WorkerStep ==
    \E w \in Slots :
        \/ \E e \in Errs : DownloadProbeRaises(w, e)
        \/ \E entries \in EntryLists, title \in Titles :
              DownloadProbePlaylist(w, entries, title)
        \/ DownloadProbeSingle(w)
        \/ BeginAttempt(w)
        \/ FetchReturns(w)
        \/ \E e \in Errs : FetchRaises(w, e)
        \/ Sleep(w)
        \/ DownloadFinish(w)
        \/ \E e \in Errs : PlaylistProbeRaises(w, e)
        \/ \E entries \in EntryLists : PlaylistProbeReturns(w, entries)
        \/ PlaylistSkip(w)
        \/ PlaylistEnter(w)
        \/ PlaylistItemReturn(w)
        \/ PlaylistExit(w)
\* The user answers an open dialog: dialog.exec() returns.
DialogCloses ==
    \/ \E checked \in UNION {[1..n -> BOOLEAN] : n \in 0..MaxEntries},
          create_folder \in BOOLEAN : DialogAccept(checked, create_folder)
    \/ \E checked \in UNION {[1..n -> BOOLEAN] : n \in 0..MaxEntries} :
          DialogAcceptRaises(checked, "OSError")
    \/ DialogReject

\* the window whose threads run on and whose dialogs get answered
SpecLive == Init /\ [][Next]_vars /\ WF_vars(WorkerStep) /\ WF_vars(DialogCloses)

\* ======================================================= playlist folders
\* One playlist run from the open dialog on, over the titles a playlist can
\* carry: every text of up to MaxTitleLen characters of TitleChars, and each
\* invalid character on its own.
TitleChars == {".", " ", ":", "a"}
TitlesUpTo(n) == UNION {[1..k -> TitleChars] : k \in 0..n}
AllTitles == TitlesUpTo(MaxTitleLen) \cup {<<c>> : c \in invalid_chars}

\* the window with the dialog open: start_download took the URL, the probe
\* found a playlist of one entry titled `title`
InitFolder ==
    \E title \in AllTitles :
        /\ url_input = "u1"
        /\ format_combo = DefaultFormat
        /\ quality_combo = DefaultQuality
        /\ download_btn = FALSE
        /\ status_label = "Starting download..."
        /\ history_file = NoFile
        /\ history_list = <<>>
        /\ clock = 0
        /\ uncaught = ""
        /\ dirs = {OutputDir}
        /\ workers = [w \in Slots |->
                         ProbedPlaylist(NewDownloadWorker("u1", OutputDir, QUALITY_PRESETS[DefaultQuality],
                                           FORMAT_PRESETS[DefaultFormat]), <<"a">>)]
        /\ dialogs = <<DialogOn(1, <<"a">>, title)>>
        /\ started = 1

NextFolder ==
    \/ \E checked \in [1..1 -> BOOLEAN], create_folder \in BOOLEAN :
          DialogAccept(checked, create_folder)
    \/ DialogReject
    \/ \E w \in Slots :
          \/ \E e \in Errs : PlaylistProbeRaises(w, e)
          \/ PlaylistProbeReturns(w, <<"a">>)
          \/ PlaylistEnter(w)
          \/ BeginAttempt(w)
          \/ FetchReturns(w)
          \/ \E e \in Errs : FetchRaises(w, e)
          \/ Sleep(w)
          \/ PlaylistItemReturn(w)
          \/ PlaylistExit(w)

SpecFolder == InitFolder /\ [][NextFolder]_vars

\* ============================================== one playlist, up to three
\* One playlist run from the open dialog on, over playlists of up to
\* MaxCollection entries, each with an id.
PlaylistIds == {"a", "b"}
Collections == UNION {[1..n -> PlaylistIds] : n \in 1..MaxCollection}

\* the window with the dialog open on a playlist `entries`
InitPlaylist ==
    \E entries \in Collections, title \in Titles :
        /\ url_input = "u1"
        /\ format_combo = DefaultFormat
        /\ quality_combo = DefaultQuality
        /\ download_btn = FALSE
        /\ status_label = "Starting download..."
        /\ history_file = NoFile
        /\ history_list = <<>>
        /\ clock = 0
        /\ uncaught = ""
        /\ dirs = {OutputDir}
        /\ workers = [w \in Slots |->
                         ProbedPlaylist(NewDownloadWorker("u1", OutputDir, QUALITY_PRESETS[DefaultQuality],
                                           FORMAT_PRESETS[DefaultFormat]), entries)]
        /\ dialogs = <<DialogOn(1, entries, title)>>
        /\ started = 1

NextPlaylist ==
    \/ \E checked \in UNION {[1..n -> BOOLEAN] : n \in 1..MaxCollection},
          create_folder \in BOOLEAN : DialogAcceptKeeping(checked, create_folder)
    \/ DialogReject
    \/ \E w \in Slots :
          \/ \E e \in Errs : PlaylistProbeRaises(w, e)
          \/ \E entries \in Collections : PlaylistProbeReturns(w, entries)
          \/ PlaylistEnter(w)
          \/ BeginAttempt(w)
          \/ FetchReturns(w)
          \/ \E e \in Errs : FetchRaises(w, e)
          \/ Sleep(w)
          \/ PlaylistItemReturn(w)
          \/ PlaylistExit(w)

SpecPlaylist == InitPlaylist /\ [][NextPlaylist]_vars

\* ================================================== DownloadHistoryWidget
\* The history widget on its own: launched on whatever file lies on the disk,
\* then told to add entries and to clear, as its callers do.
HistoryUrls == {"u1", "u2"}
\* the lists an earlier session can have left: its entries carry the readings
\* of that session's clock, which lie before this session's
StoredEntry(k, n, url) == HistoryItem(k - n - 1, url, "mp3", "320")
StoredLists ==
    UNION {{[k \in 1..n |-> StoredEntry(k, n, f[k])] : f \in [1..n -> HistoryUrls]}
             : n \in 0..MaxStored}
StartFiles ==
    {BadFile(kind) : kind \in FileKinds \ {"json"}} \cup
    {JsonFile(history) : history \in StoredLists}

\* the window after construction on the file `file`: line 325 makes the
\* history widget, whose __init__ calls load_history
Launched(file) ==
    /\ url_input = ""
    /\ format_combo = DefaultFormat
    /\ quality_combo = DefaultQuality
    /\ download_btn = TRUE
    /\ status_label = "Ready"
    /\ history_file = file
    /\ history_list = load_history(file).rows
    /\ clock = 0
    /\ uncaught = load_history(file).raises
    /\ dirs = {OutputDir}
    /\ workers = [w \in Slots |-> NoWorker]
    /\ dialogs = <<>>
    /\ started = 0

InitHistory == \E file \in StartFiles : Launched(file)

\* a caller adds an entry (download_finished, line 626)
AddEntry(url, format_, quality) ==
    /\ uncaught = ""
    /\ clock < MaxClock
    /\ add_to_history(url, format_, quality)
    /\ UNCHANGED <<url_input, format_combo, quality_combo, download_btn, status_label, dirs, workers,
                   dialogs, started>>

\* the application is closed and launched again on the file as it is
Relaunch ==
    /\ history_list' = load_history(history_file).rows
    /\ uncaught' = load_history(history_file).raises
    /\ UNCHANGED <<url_input, format_combo, quality_combo, download_btn, status_label, history_file, clock,
                   dirs, workers, dialogs, started>>

NextHistory ==
    \/ \E url \in HistoryUrls, format_ \in {"mp3", "flac"}, quality \in {"320"} :
          AddEntry(url, format_, quality)
    \/ ClickClear
    \/ Relaunch

SpecHistory == InitHistory /\ [][NextHistory]_vars

\* =========================================================== updatemain.py
\* The window of src/updatemain.py: no probe, no playlist dialog, no retry
\* loop; the worker hands the URL to ydl.download, whose progress hook reports
\* to the window.  The history widget and the finished and error slots are
\* those of main.py, line for line.

\* updatemain.py DownloadWorker.__init__, lines 35-70
updatemain_NewDownloadWorker(url, output_dir, quality, format_) ==
    [NoWorker EXCEPT !.cls = "updatemain.DownloadWorker", !.pc = "download",
                     !.url = url, !.quality = quality, !.format = format_,
                     !.outtmpl = output_dir]

\* The dictionary the collaborator hands to a progress hook: d['status'] is
\* one of three tags, and a 'downloading' dictionary may carry the text
\* _percent_str.  A text is known by its name; PercentChars gives the
\* characters of each, "^[" standing for the escape character of a colour
\* code.
HookStatuses == {"downloading", "finished", "error"}
PercentChars ==
    ("N/A" :> <<"N", "/", "A">>) @@
    (" 50.0%" :> <<" ", "5", "0", ".", "0", "%">>) @@
    ("12.5%" :> <<"1", "2", ".", "5", "%">>) @@
    ("100%" :> <<"1", "0", "0", "%">>) @@
    ("^[[94m 50.0%^[[0m" :>
        <<"^[", "[", "9", "4", "m", " ", "5", "0", ".", "0", "%", "^[", "[", "0", "m">>)
PercentStrs == DOMAIN PercentChars
HookDicts ==
    {[status |-> status] : status \in HookStatuses} \cup
    {[status |-> "downloading", _percent_str |-> percent] : percent \in PercentStrs}

\* d.get(key, default)
dict_get(d, key, default) == IF key \in DOMAIN d THEN d[key] ELSE default

\* str.strip(chars): the characters of chars leave both ends of the text
RECURSIVE strip(_, _)
strip(text, chars) ==
    IF text = <<>> THEN text
    ELSE IF Head(text) \in chars THEN strip(Tail(text), chars)
    ELSE IF text[Len(text)] \in chars
         THEN strip(SubSeq(text, 1, Len(text) - 1), chars)
    ELSE text

\* the decimal digits and the number a run of them writes
digits ==
    ("0" :> 0) @@ ("1" :> 1) @@ ("2" :> 2) @@ ("3" :> 3) @@ ("4" :> 4) @@
    ("5" :> 5) @@ ("6" :> 6) @@ ("7" :> 7) @@ ("8" :> 8) @@ ("9" :> 9)
RECURSIVE int(_)
int(text) ==
    IF text = <<>> THEN 0
    ELSE int(SubSeq(text, 1, Len(text) - 1)) * 10 + digits[text[Len(text)]]

\* float(text) over texts without sign or exponent: blanks around the number
\* are passed over, then digits with at most one point among them and one
\* digit at least; anything else raises ValueError.  The value is kept in
\* tenths; the texts of PercentChars have one decimal at most.
float(text) ==
    LET t == strip(text, {" "})
        points == {i \in 1..Len(t) : t[i] = "."}
        point == IF points = {} THEN Len(t) + 1
                 ELSE CHOOSE i \in points : \A j \in points : i <= j
        whole == SubSeq(t, 1, point - 1)
        decimals == SubSeq(t, point + 1, Len(t))
        is_number == /\ \A i \in 1..Len(whole) : whole[i] \in DOMAIN digits
                     /\ \A i \in 1..Len(decimals) : decimals[i] \in DOMAIN digits
                     /\ Len(whole) + Len(decimals) > 0
    IN  IF ~is_number THEN [raises |-> "ValueError", value |-> 0]
        ELSE [raises |-> "",
              value |-> int(whole) * 10 +
                        (IF decimals = <<>> THEN 0 ELSE digits[decimals[1]])]

\* the percentage parsed with the '%' left on the text
percent_float_noStrip(percent) ==
    LET parsed == float(PercentChars[percent]) IN
    IF parsed.raises # "" THEN 0 ELSE parsed.value
\* lines 84-87: float(percent.strip('%')), 0 when that raises; in tenths
percent_float(percent) ==
    LET parsed == float(strip(PercentChars[percent], {"%"})) IN
    IF parsed.raises # "" THEN 0 ELSE parsed.value

\* str.upper() of the codec names
upper ==
    ("mp3" :> "MP3") @@ ("m4a" :> "M4A") @@ ("wav" :> "WAV") @@
    ("flac" :> "FLAC") @@ ("opus" :> "OPUS")

\* the progress signals of the hook; num is the percentage in tenths
EvDownloading(percent) ==
    Ev("progress", "Downloading...", 0, 0, percent_float(percent), percent, 0)
EvConverting(format_) ==
    Ev("progress", "Download complete. Converting to", 0, 0, 100 * 10,
       upper[format_], 0)
EvHookError == Ev("progress", "Error occurred, retrying...", 0, 0, 0, "", 0)

\* updatemain.py start_download, lines 419-450
updatemain_start_download(dir_ok) ==
    IF url_input = ""
    THEN /\ status_label' = "Please enter a URL"
         /\ UNCHANGED <<url_input, format_combo, quality_combo, download_btn, history_file, history_list,
                        clock, uncaught, workers, started>>
    ELSE IF ~dir_ok
    THEN /\ status_label' = "Please select a valid output directory"
         /\ UNCHANGED <<url_input, format_combo, quality_combo, download_btn, history_file, history_list,
                        clock, uncaught, workers, started>>
    ELSE /\ started < MaxRuns
         \* a thread is free for the new worker; with one thread the user asks
         \* for a download only when none is running
         /\ FreeSlots # {}
         /\ LET w == CHOOSE x \in FreeSlots : \A y \in FreeSlots : x <= y
            IN  workers' = [workers EXCEPT ![w] =
                    [updatemain_NewDownloadWorker(url_input, OutputDir,
                                                  QUALITY_PRESETS[quality_combo],
                                                  FORMAT_PRESETS[format_combo])
                         EXCEPT !.hist_adds = 1]]
         /\ started' = started + 1
         /\ download_btn' = FALSE
         /\ status_label' = "Starting download..."
         \* line 450: the entry is added as soon as the worker is started
         /\ add_to_history(url_input, FORMAT_PRESETS[format_combo],
                           QUALITY_PRESETS[quality_combo])
         /\ UNCHANGED <<url_input, format_combo, quality_combo>>

updatemain_ClickConvert ==
    /\ download_btn
    /\ \E dir_ok \in BOOLEAN : updatemain_start_download(dir_ok)
    /\ UNCHANGED <<dirs, dialogs>>

\* updatemain.py setup_shortcuts, line 401
updatemain_ReturnPressed ==
    /\ \E dir_ok \in BOOLEAN : updatemain_start_download(dir_ok)
    /\ UNCHANGED <<dirs, dialogs>>

\* updatemain.py progress_hook, lines 80-92, as ydl.download calls it with
\* the dictionary d; the signal goes to update_progress.  A status that is
\* none of the three passes every branch and emits nothing.
updatemain_progress_hook(w, d) ==
    LET r == workers[w] IN
    /\ r.cls = "updatemain.DownloadWorker" /\ r.pc = "download"
    /\ r.hooks < MaxHooks
    /\ CASE d.status = "downloading" ->
              LET percent == dict_get(d, "_percent_str", "N/A") IN
              /\ workers' = [workers EXCEPT ![w] =
                     Emit([r EXCEPT !.hooks = @ + 1], EvDownloading(percent))]
              /\ update_progress("Downloading...")
         [] d.status = "finished" ->
              /\ workers' = [workers EXCEPT ![w] =
                     Emit([r EXCEPT !.hooks = @ + 1], EvConverting(r.format))]
              /\ update_progress("Download complete. Converting to")
         [] d.status = "error" ->
              /\ workers' = [workers EXCEPT ![w] =
                     Emit([r EXCEPT !.hooks = @ + 1], EvHookError)]
              /\ update_progress("Error occurred, retrying...")
         [] OTHER ->
              /\ workers' = [workers EXCEPT ![w].hooks = @ + 1]
              /\ NoUiChange
    /\ UNCHANGED <<dirs, dialogs, started>>

\* updatemain.py run, lines 72-75: ydl.download returned
updatemain_RunReturns(w) ==
    LET r == workers[w] IN
    /\ r.cls = "updatemain.DownloadWorker" /\ r.pc = "download"
    /\ workers' = [workers EXCEPT ![w] =
           Emit([r EXCEPT !.pc = "done", !.hist_adds = @ + 1], EvFinished)]
    /\ download_finished
    /\ UNCHANGED <<dirs, dialogs, started>>

\* updatemain.py run, lines 76-77: ydl.download raised e
updatemain_RunRaises(w, e) ==
    LET r == workers[w] IN
    /\ r.cls = "updatemain.DownloadWorker" /\ r.pc = "download"
    /\ workers' = [workers EXCEPT ![w] =
           Emit([r EXCEPT !.pc = "done"], EvError(e))]
    /\ download_error
    /\ UNCHANGED <<dirs, dialogs, started>>

NextUpdate ==
    \/ \E u \in Urls \cup {""} : EditUrl(u)
    \/ updatemain_ClickConvert
    \/ updatemain_ReturnPressed
    \/ ClickClear
    \/ \E w \in Slots :
          \/ \E d \in HookDicts : updatemain_progress_hook(w, d)
          \/ updatemain_RunReturns(w)
          \/ \E e \in Errs : updatemain_RunRaises(w, e)

SpecUpdate == Init /\ [][NextUpdate]_vars

\* ------------------------------------------------- one download, hooks
\* updatemain.py's window just after start_download has accepted "u1" with
\* some format and quality chosen: the worker is in ydl.download and the
\* entry of line 450 is in the history.
InitHook ==
    \E format_name \in FormatChoices, quality_name \in QualityChoices :
        LET format_ == FORMAT_PRESETS[format_name]
            quality == QUALITY_PRESETS[quality_name]
        IN
        /\ url_input = "u1"
        /\ format_combo = format_name
        /\ quality_combo = quality_name
        /\ download_btn = FALSE
        /\ status_label = "Starting download..."
        /\ history_file = JsonFile(<<HistoryItem(0, "u1", format_, quality)>>)
        /\ history_list = <<Row(0, format_, quality, "u1")>>
        /\ clock = 1
        /\ uncaught = ""
        /\ dirs = {OutputDir}
        /\ workers = [w \in Slots |->
               [updatemain_NewDownloadWorker("u1", OutputDir, quality, format_)
                    EXCEPT !.hist_adds = 1]]
        /\ dialogs = <<>>
        /\ started = 1

NextHook ==
    \E w \in Slots :
        \/ \E d \in HookDicts : updatemain_progress_hook(w, d)
        \/ updatemain_RunReturns(w)
        \/ \E e \in Errs : updatemain_RunRaises(w, e)

SpecHook == InitHook /\ [][NextHook]_vars

\* ------------------------------------------- single downloads, fields
\* main.py's window downloading single videos while the user edits the URL
\* field and the two combo boxes, also while a download is under way.
NextFields ==
    \/ \E u \in HistoryUrls \cup {""} : EditUrl(u)
    \/ \E name \in FormatChoices : SelectFormat(name)
    \/ \E name \in QualityChoices : SelectQuality(name)
    \/ ClickConvert
    \/ ReturnPressed
    \/ \E w \in Slots :
          \/ \E e \in Errs : DownloadProbeRaises(w, e)
          \/ DownloadProbeSingle(w)
          \/ BeginAttempt(w)
          \/ FetchReturns(w)
          \/ \E e \in Errs : FetchRaises(w, e)
          \/ Sleep(w)
          \/ DownloadFinish(w)

SpecFields == Init /\ [][NextFields]_vars

\* ------------------------------------------- downloads during downloads
\* main.py's window with a user who also asks for a download while one is
\* under way: start_download builds and starts a worker whenever it is
\* called with valid fields (lines 584-609); the worker it replaces in
\* MainWindow.worker keeps running, its signals still connected.
InitOverlap ==
    /\ url_input = ""
    /\ format_combo = DefaultFormat
    /\ quality_combo = DefaultQuality
    /\ download_btn = TRUE
    /\ status_label = "Ready"
    /\ history_file = NoFile
    /\ history_list = load_history(NoFile).rows
    /\ clock = 0
    /\ uncaught = load_history(NoFile).raises
    /\ dirs = {OutputDir}
    /\ workers = [w \in Threads |-> NoWorker]
    /\ dialogs = <<>>
    /\ started = 0

NextOverlap ==
    \/ \E u \in Urls \cup {""} : EditUrl(u)
    \/ ClickConvert
    \/ ReturnPressed
    \/ \E w \in Threads :
          \/ \E e \in Errs : DownloadProbeRaises(w, e)
          \/ DownloadProbeSingle(w)
          \/ BeginAttempt(w)
          \/ FetchReturns(w)
          \/ \E e \in Errs : FetchRaises(w, e)
          \/ Sleep(w)
          \/ DownloadFinish(w)

SpecOverlap == InitOverlap /\ [][NextOverlap]_vars


\* ---------------------------------------------------- reading the log
Terminal(ev) == ev.sig \in {"finished", "error"}
Count(log, Test(_)) == Len(SelectSeq(log, Test))
\* the signals the worker in slot w emitted itself
OwnLog(r) == SubSeq(r.log, r.first + 1, Len(r.log))
\* the run ended with the finished signal
EndedFinished(r) ==
    r.pc = "done" /\ r.log # <<>> /\ r.log[Len(r.log)] = EvFinished
\* the retry notices and errors of the download_with_retry call for entry i
ItemNotices(r, i) ==
    SelectSeq(r.log, LAMBDA ev : ev.item = i /\ ev.sig \in {"retry_signal", "error"})

\* -------------------------------------------------------------- claims
\* C1: for every item of every run, download_with_retry calls the
\* collaborator's fetch at most 3 times, whatever the fetches return or raise.
C1_AtMostThreeFetches ==
    \A w \in Slots : \A i \in 1..Len(workers[w].items) :
        workers[w].items[i].fetches <= 3

\* an item whose third fetch was made and has raised
C1_ThirdFetchMade ==
    \E w \in Slots : \E i \in 1..Len(workers[w].items) :
        /\ workers[w].items[i].fetches = 3
        /\ Len(workers[w].items[i].raised) = 3

\* C2: when the fetch raises on all 3 attempts for an item, the retry notices
\* and errors emitted for the item are exactly 2 retry notices, each with the
\* error just raised and the delay 5, then one error 'Failed to download
\* video i after 3 attempts: <cause>' with the last error; 2 delays were
\* slept, none after the last failure.
C2_ThreeFailures ==
    \A w \in Slots : \A i \in 1..Len(workers[w].items) :
        LET r == workers[w]
            it == r.items[i]
        IN  Len(it.raised) = 3 =>
              /\ ItemNotices(r, i) =
                   << Ev("retry_signal", "", 0, 0, 5, it.raised[1], i),
                      Ev("retry_signal", "", 0, 0, 5, it.raised[2], i),
                      Ev("error", "Failed to download video", i, 0, 3, it.raised[3], i) >>
              /\ it.slept = 2
              /\ it.fetches = 3

\* a download_with_retry call that has returned after three failures
C2_FailedThrice ==
    \E w \in Slots : \E i \in 1..Len(workers[w].items) :
        /\ Len(workers[w].items[i].raised) = 3
        /\ workers[w].ret = "False"
        /\ workers[w].pc = "returned"

\* C3: a run whose probe found a single video emits no playlist_info and ends
\* with exactly one terminal signal, finished or error but never both.
C3_SingleRunOneTerminal ==
    \A w \in Slots :
        LET r == workers[w] IN
        (r.cls = "DownloadWorker" /\ r.type = "video" /\ r.pc = "done") =>
            /\ Count(r.log, LAMBDA ev : ev.sig = "playlist_info") = 0
            /\ Count(r.log, Terminal) = 1


\* -------------------------------------------------- playlist runs
PlaylistRun(r) == r.cls = "PlaylistDownloadWorker"
\* the 'Processing video i/n (Attempt a/3)' progress signals of a run
Processing(r) == SelectSeq(r.log, LAMBDA ev : ev.msg = "Processing video")
\* a fetch for selected entry k returned
Completed(r, k) == k <= Len(r.items) /\ r.items[k].returned > 0
\* the terminal error of selected entry k was emitted
Failed(r, k) ==
    \E n \in 1..Len(r.log) : r.log[n].sig = "error" /\ r.log[n].item = k
\* a playlist run that finished with every selected entry downloaded
AllDownloaded(r) ==
    /\ PlaylistRun(r)
    /\ EndedFinished(r)
    /\ \A k \in 1..Len(r.selected_indices) : Completed(r, k)

RECURSIVE SumFetches(_)
SumFetches(items) ==
    IF items = <<>> THEN 0 ELSE Head(items).fetches + SumFetches(Tail(items))

\* C4 as stated: in a playlist run in which every selected item ends up
\* downloaded, the number of 'Processing' progress signals equals the number
\* of selected items, and their item numbers are strictly increasing.
C4_OneProcessingPerItem ==
    \A w \in Slots :
        LET r == workers[w]
            p == Processing(r)
        IN  AllDownloaded(r) =>
              /\ Len(p) = Len(r.selected_indices)
              /\ \A a, b \in 1..Len(p) : a < b => p[a].index < p[b].index

\* C4 as amended: in such a run one 'Processing' signal is emitted per fetch
\* attempt, with item numbers that never decrease; the signals of first
\* attempts (Attempt 1/3) are one per selected item, numbered 1, 2, .. n.
C4_OneProcessingPerAttempt ==
    \A w \in Slots :
        LET r == workers[w]
            p == Processing(r)
            f == SelectSeq(p, LAMBDA ev : ev.num = 1)
        IN  AllDownloaded(r) =>
              /\ Len(p) = SumFetches(r.items)
              /\ \A a, b \in 1..Len(p) : a < b => p[a].index <= p[b].index
              /\ Len(f) = Len(r.selected_indices)
              /\ \A k \in 1..Len(f) : f[k].index = k

\* a playlist run with every entry downloaded, one of them on a retry
C4_DownloadedOnRetry ==
    \E w \in Slots :
        /\ AllDownloaded(workers[w])
        /\ Len(workers[w].selected_indices) = 2
        /\ Len(Processing(workers[w])) > 2

\* C5 as stated: in a playlist run an item that fails all its attempts does
\* not abort the run: every selected item after it gets at least one fetch.
C5_LaterItemsFetched ==
    \A w \in Slots :
        LET r == workers[w] IN
        (PlaylistRun(r) /\ r.pc = "done") =>
            \A i, j \in 1..Len(r.items) :
                (Failed(r, i) /\ i < j) => r.items[j].fetches >= 1

\* C5 as amended: every selected entry after the failed one that has a video
\* id gets at least one fetch; one without an id is passed over unfetched;
\* and the run goes on to its finished signal.
C5_LaterItemsWithIdFetched ==
    \A w \in Slots :
        LET r == workers[w] IN
        (PlaylistRun(r) /\ r.pc = "done") =>
            \A i, j \in 1..Len(r.items) :
                (Failed(r, i) /\ i < j) =>
                    /\ r.selected_entries[j] # NoId => r.items[j].fetches >= 1
                    /\ r.selected_entries[j] = NoId => r.items[j].fetches = 0
                    /\ EndedFinished(r)

\* a finished playlist run whose first entry failed and whose second was fetched
C5_FetchedAfterFailure ==
    \E w \in Slots :
        LET r == workers[w] IN
        /\ PlaylistRun(r) /\ r.pc = "done"
        /\ Len(r.items) >= 2
        /\ Failed(r, 1)
        /\ r.items[2].fetches >= 1


\* C6 as stated: when a playlist run has reached its terminal state, every
\* selected item is in exactly one of completed (a fetch for it returned) and
\* failed (its terminal error was emitted).
C6_EveryItemSettled ==
    \A w \in Slots :
        LET r == workers[w] IN
        (PlaylistRun(r) /\ r.pc = "done") =>
            \A k \in 1..Len(r.selected_indices) :
                Completed(r, k) # Failed(r, k)

\* C6 as amended: when a playlist run ends with finished, every selected
\* entry that has a video id is in exactly one of completed and failed, and
\* an entry without an id is in neither; when the playlist worker ends with
\* an error of its own (probe raised, no entries, selected index out of
\* range) no item was fetched and every selected item is in neither.
C6_ItemsWithIdSettled ==
    \A w \in Slots :
        LET r == workers[w] IN
        (PlaylistRun(r) /\ r.pc = "done") =>
            IF EndedFinished(r)
            THEN /\ Len(r.items) = Len(r.selected_indices)
                 /\ \A k \in 1..Len(r.selected_indices) :
                       IF r.selected_entries[k] # NoId
                       THEN Completed(r, k) # Failed(r, k)
                       ELSE ~Completed(r, k) /\ ~Failed(r, k)
            ELSE /\ r.log[Len(r.log)].sig = "error"
                 /\ \A k \in 1..Len(r.selected_indices) :
                       ~Completed(r, k) /\ ~Failed(r, k)

\* a finished playlist run with one entry completed and another failed
C6_OneCompletedOneFailed ==
    \E w \in Slots :
        LET r == workers[w] IN
        /\ PlaylistRun(r) /\ EndedFinished(r)
        /\ \E i, j \in 1..Len(r.selected_indices) :
              Completed(r, i) /\ Failed(r, j)

\* the number of selected entries whose terminal error was emitted
RECURSIVE FailedCount(_, _)
FailedCount(r, k) ==
    IF k = 0 THEN 0
    ELSE (IF Failed(r, k) THEN 1 ELSE 0) + FailedCount(r, k - 1)
\* the number of selected entries passed over for having no id
RECURSIVE SkippedCount(_, _)
SkippedCount(r, k) ==
    IF k = 0 THEN 0
    ELSE (IF r.items[k].skipped THEN 1 ELSE 0) + SkippedCount(r, k - 1)
FailureSummary(ev) == ev.msg = "Playlist download completed with errors"

\* C7 as stated: after all selected items are processed the run emits finished
\* exactly once, as its last signal; if every item succeeded no failure
\* summary is emitted, and otherwise a summary progress precedes finished
\* whose count is the number of items whose terminal error was emitted.
C7_SummaryCountsErrors ==
    \A w \in Slots :
        LET r == workers[w]
            n == Len(r.selected_indices)
        IN
        (PlaylistRun(r) /\ EndedFinished(r)) =>
            /\ Count(r.log, LAMBDA ev : ev.sig = "finished") = 1
            /\ IF \A k \in 1..n : Completed(r, k)
               THEN Count(r.log, FailureSummary) = 0
               ELSE r.log[Len(r.log) - 1] = EvSummary(FailedCount(r, n))

\* C7 as amended: the count of the summary is the number of selected entries
\* not downloaded: those whose terminal error was emitted plus those passed
\* over for having no id; with every item downloaded the progress before
\* finished is 'Playlist download complete'.
C7_SummaryCountsNotDownloaded ==
    \A w \in Slots :
        LET r == workers[w]
            n == Len(r.selected_indices)
        IN
        (PlaylistRun(r) /\ EndedFinished(r)) =>
            /\ Count(r.log, LAMBDA ev : ev.sig = "finished") = 1
            /\ IF \A k \in 1..n : Completed(r, k)
               THEN /\ Count(r.log, FailureSummary) = 0
                    /\ r.log[Len(r.log) - 1] = EvComplete
               ELSE /\ r.log[Len(r.log) - 1] =
                          EvSummary(FailedCount(r, n) + SkippedCount(r, n))
                    /\ Count(r.log, FailureSummary) = 1

\* a finished playlist run with a failed entry and an entry without id
C7_FailedAndSkipped ==
    \E w \in Slots :
        LET r == workers[w]
            n == Len(r.selected_indices)
        IN
        /\ PlaylistRun(r) /\ EndedFinished(r)
        /\ FailedCount(r, n) = 1 /\ SkippedCount(r, n) = 1

\* C8: a worker whose probe raises emits exactly one signal, the error with
\* the probe's failure, and ends: one probe, no fetch, no playlist_info, no
\* finished.
C8_ProbeFailureEndsWorker ==
    \A w \in Slots :
        LET r == workers[w] IN
        r.probe_error =>
            /\ r.pc = "done"
            /\ r.probes = 1
            /\ Len(OwnLog(r)) = 1
            /\ OwnLog(r)[1].sig = "error"
            /\ OwnLog(r)[1].msg = "str(e)"
            /\ OwnLog(r)[1].text \in Errs
            /\ SumFetches(r.items) = 0

\* a worker has ended on a probe that raised
C8_ProbeRaised ==
    \E w \in Slots :
        /\ workers[w].probe_error
        /\ workers[w].cls = "DownloadWorker"
        /\ workers[w].pc = "done"

\* C9: when the probe of a submitted URL returns a playlist with 0 entries,
\* the run emits the error 'No entries found in playlist' at once and never
\* emits playlist_info.
C9_EmptyPlaylistIsError ==
    \A w \in Slots :
        LET r == workers[w] IN
        (r.cls = "DownloadWorker" /\ r.type = "playlist" /\ r.entries = <<>>) =>
            /\ r.log = <<EvNoEntries>>
            /\ Count(r.log, LAMBDA ev : ev.sig = "playlist_info") = 0

\* C10 as stated: when the selection is answered with nothing selected, the
\* run ends with an error signal, no fetch is made and no history entry is
\* appended.
C10_EmptySelectionIsError ==
    \A w \in Slots :
        LET r == workers[w] IN
        r.decision = "empty" =>
            /\ r.log[Len(r.log)].sig = "error"
            /\ SumFetches(r.items) = 0
            /\ r.hist_adds = 0

\* C10 as amended: the run ends there without an error or finished signal
\* (playlist_info stays its only signal and no playlist worker is made), no
\* fetch is made and no history entry is appended.
C10_EmptySelectionEndsRun ==
    \A w \in Slots :
        LET r == workers[w] IN
        r.decision = "empty" =>
            /\ r.cls = "DownloadWorker" /\ r.pc = "done"
            /\ r.log = <<EvPlaylistInfo>>
            /\ SumFetches(r.items) = 0
            /\ r.hist_adds = 0

\* the dialog of a playlist with entries was accepted with none ticked
C10_AcceptedEmpty ==
    \E w \in Slots :
        /\ workers[w].decision = "empty"
        /\ workers[w].entries # <<>>

\* ------------------------------------------------- the selection gate
\* the run asked for a selection: playlist_info is in its log
AskedSelection(r) == Count(r.log, LAMBDA ev : ev.sig = "playlist_info") > 0

\* C11: for a playlist URL no fetch happens between playlist_info and the
\* selection decision: while the dialog is open the probing worker has ended
\* without a fetch and nothing is being fetched, a run whose dialog was
\* cancelled or accepted empty never fetches, and a run that asked for a
\* selection fetches only in a playlist worker made on accepting the dialog
\* with a non-empty selection.
C11_NoFetchBeforeDecision ==
    /\ \A d \in 1..Len(dialogs) :
          LET r == workers[dialogs[d].slot] IN
          /\ r.cls = "DownloadWorker" /\ r.pc = "done"
          /\ r.decision = "asked"
          /\ r.log[Len(r.log)] = EvPlaylistInfo
    /\ dialogs # <<>> => \A w \in Slots : ~Alive(w)
    /\ \A w \in Slots :
          LET r == workers[w] IN
          /\ r.decision \in {"asked", "cancelled", "empty"} =>
                r.pc = "done" /\ SumFetches(r.items) = 0
          /\ (AskedSelection(r) /\ (SumFetches(r.items) > 0 \/ Alive(w))) =>
                /\ r.cls = "PlaylistDownloadWorker"
                /\ r.decision = "accepted"
                /\ r.selected_indices # <<>>
                /\ r.log[r.first] = EvPlaylistInfo

\* a playlist worker is fetching after the dialog was accepted
C11_FetchingAfterAccept ==
    \E w \in Slots :
        /\ AskedSelection(workers[w])
        /\ workers[w].pc = "fetching"
        /\ dialogs = <<>>

\* ----------------------------------------------------------- history
\* C12: each run that reaches finished appends exactly one history entry:
\* when a run has ended with the finished signal, add_to_history was called
\* once for it.
C12_OneEntryPerFinished ==
    \A w \in Slots :
        EndedFinished(workers[w]) => workers[w].hist_adds = 1

\* C13: a history entry is appended only after a successful download: a run
\* for which add_to_history was called has an item whose fetch returned; a
\* run whose items all failed their attempts, or whose probe raised, has no
\* entry.
C13_HistoryOnlyAfterSuccess ==
    \A w \in Slots :
        LET r == workers[w] IN
        r.hist_adds > 0 => \E k \in 1..Len(r.items) : Completed(r, k)

\* the rows of a stored history as load_history renders them, newest on top
RowsNewestFirst(history) ==
    [i \in 1..Len(history) |-> RowOf(history[Len(history) + 1 - i])]
OldestFirst(history) ==
    \A i, j \in 1..Len(history) :
        i < j => history[i].timestamp < history[j].timestamp
\* the file as the single writer leaves it or finds it
WriterFile(file) == file.kind \in {"missing", "invalid", "json"}

\* the file holds its entries oldest first and the list shows them reversed
ListShowsFile(file, list) ==
    WriterFile(file) =>
        /\ OldestFirst(load_history_from_file(file).history)
        /\ list = RowsNewestFirst(load_history_from_file(file).history)

\* C14: after any sequence of add_to_history and clear_history by the single
\* writer, the file holds the entries oldest first and the list widget shows
\* exactly that sequence reversed, newest on top; after clear_history both
\* are empty.
C14_ListIsFileReversed ==
    [][ /\ ListShowsFile(history_file, history_list)
        /\ (WriterFile(history_file) /\ uncaught = "") =>
             /\ uncaught' = ""
             /\ history_file'.kind = "json"
             /\ ListShowsFile(history_file', history_list')
        /\ ClickClear =>
             /\ history_list' = <<>>
             /\ history_file' = JsonFile(<<>>) ]_vars

\* after a clear, two entries for different URLs were added
C14_TwoAddedAfterClear ==
    /\ history_file.kind = "json"
    /\ Len(history_file.data) = 2
    /\ history_file.data[1].timestamp >= 1
    /\ history_file.data[1].url # history_file.data[2].url
    /\ Len(history_list) = 2

\* C15: loading the history from a missing or corrupt file gives the empty
\* history and raises no error, and an add_to_history that follows leaves
\* a file with exactly the one new entry.
C15_BadFileIsEmptyHistory ==
    /\ [](history_file.kind # "json" => history_list = <<>> /\ uncaught = "")
    /\ [][ (history_file.kind # "json" /\ clock' = clock + 1) =>
             /\ uncaught' = ""
             /\ history_file'.kind = "json"
             /\ Len(history_file'.data) = 1
             /\ history_file'.data[1].timestamp = clock ]_vars

\* ------------------------------------------------------ sanitization
\* a sanitized name: none of the invalid characters, no dot or space at
\* either end
Sanitized(name) ==
    /\ \A i \in 1..Len(name) : name[i] \notin invalid_chars
    /\ name # <<>> => Head(name) \notin {".", " "} /\ name[Len(name)] \notin {".", " "}

\* C16: sanitize_filename is idempotent: for every title x,
\* sanitize_filename(sanitize_filename(x)) = sanitize_filename(x); the
\* sanitized title has '_' for each invalid character and no dot or space
\* at either end, and the name a playlist worker keeps is unchanged by
\* sanitizing it again.
C16_SanitizeIdempotent ==
    /\ \A d \in 1..Len(dialogs) :
          LET x == dialogs[d].title IN
          /\ sanitize_filename(sanitize_filename(x)) = sanitize_filename(x)
          /\ Sanitized(sanitize_filename(x))
    /\ \A w \in Slots :
          LET r == workers[w] IN
          (PlaylistRun(r) /\ r.playlist_title # NoTitle) =>
              /\ sanitize_filename(r.playlist_title) = r.playlist_title
              /\ Sanitized(r.playlist_title)

\* a playlist worker keeps the name sanitized from a title that had a dot
\* in front, an invalid character and a dot at the end
C16_SanitizedBothWays ==
    \E w \in Slots :
        LET r == workers[w] IN
        /\ PlaylistRun(r)
        /\ r.info_title = <<".", ":", ".">>
        /\ r.playlist_title = <<"_">>

\* ------------------------------------------------------- sequencing
\* the fetches of an item that were called and have neither returned nor raised
InFlight(it) == it.fetches - it.returned - Len(it.raised)
RECURSIVE SumInFlight(_)
SumInFlight(items) ==
    IF items = <<>> THEN 0 ELSE InFlight(Head(items)) + SumInFlight(Tail(items))
\* the download_with_retry call for entry k has returned, or the loop passed
\* the entry over
Settled(r, k) == Completed(r, k) \/ Failed(r, k) \/ r.items[k].skipped

\* C17: within one run the items are processed strictly one after another:
\* at most one fetch is in flight at any time, the one of the item the worker
\* is at, and when an item has had its first fetch the call for every item
\* before it has returned, with its retries and delays: no earlier item is
\* in flight or waiting to retry, and the 'Processing' signals never go back
\* to an earlier item.
C17_OneFetchAtATime ==
    \A w \in Slots :
        LET r == workers[w]
            p == Processing(r)
        IN
        /\ SumInFlight(r.items) = (IF r.pc = "fetching" THEN 1 ELSE 0)
        /\ \A k \in 1..Len(r.items) :
              /\ InFlight(r.items[k]) \in {0, 1}
              /\ InFlight(r.items[k]) = 1 => k = r.index
        /\ \A k, j \in 1..Len(r.items) :
              (k < j /\ r.items[j].fetches > 0) =>
                  /\ Settled(r, k)
                  /\ InFlight(r.items[k]) = 0
                  /\ r.index >= j
        /\ \A a, b \in 1..Len(p) : a < b => p[a].index <= p[b].index

\* the second entry is being fetched after the first was retried
C17_SecondAfterRetriedFirst ==
    \E w \in Slots :
        LET r == workers[w] IN
        /\ PlaylistRun(r) /\ r.pc = "fetching" /\ r.index = 2
        /\ r.items[1].slept > 0
        /\ r.items[1].fetches > 1

\* ------------------------------------------------------------ order
\* the entry numbers of the first-attempt 'Processing' signals, in log order
FirstAttempts(r) == SelectSeq(Processing(r), LAMBDA ev : ev.num = 1)

\* C18: the selected entries are fetched in ascending order of their position
\* in the playlist: the selected positions are strictly ascending, the k-th
\* call is for the k-th of them, and the calls are made in that order; two
\* selected entries with the same id are each processed, not deduplicated:
\* in a finished run each has its own first attempt and its own outcome.
C18_AscendingNoDedup ==
    \A w \in Slots :
        LET r == workers[w]
            si == r.selected_indices
            f == FirstAttempts(r)
        IN
        PlaylistRun(r) =>
            /\ \A a, b \in 1..Len(si) : a < b => si[a] < si[b]
            /\ \A a, b \in 1..Len(f) : a < b => si[f[a].index] < si[f[b].index]
            /\ \A i, j \in 1..Len(r.selected_entries) :
                  (/\ EndedFinished(r)
                   /\ i # j
                   /\ r.selected_entries[i] = r.selected_entries[j]
                   /\ r.selected_entries[i] # NoId) =>
                      /\ r.items[i].fetches >= 1 /\ r.items[j].fetches >= 1
                      /\ Count(f, LAMBDA ev : ev.index = i) = 1
                      /\ Count(f, LAMBDA ev : ev.index = j) = 1
                      /\ Completed(r, i) # Failed(r, i)
                      /\ Completed(r, j) # Failed(r, j)

\* a finished run over two selected entries with the same id, both fetched
C18_DuplicateFetchedTwice ==
    \E w \in Slots :
        LET r == workers[w] IN
        /\ PlaylistRun(r) /\ EndedFinished(r)
        /\ r.selected_indices = <<0, 1>>
        /\ r.selected_entries = <<"a", "a">>
        /\ Completed(r, 1) /\ Completed(r, 2)

\* ----------------------------------------------------- item numbers
\* a finished playlist run in which every fetch returned: one fetch an entry
AllFirstTime(r) ==
    /\ PlaylistRun(r) /\ EndedFinished(r)
    /\ \A k \in 1..Len(r.selected_indices) :
          r.items[k].fetches = 1 /\ r.items[k].returned = 1

\* C19 as stated: the item number of each 'Processing' signal is the entry's
\* 1-based position in the whole playlist: in a run whose fetches all
\* succeed there is one signal per selected entry, and the k-th carries the
\* position of the k-th selected entry (1 and 3 when the second of three
\* entries is deselected).
C19_NumberIsPlaylistPosition ==
    \A w \in Slots :
        LET r == workers[w]
            p == Processing(r)
        IN  AllFirstTime(r) =>
              /\ Len(p) = Len(r.selected_indices)
              /\ \A k \in 1..Len(p) : p[k].index = r.selected_indices[k] + 1

\* C19 as amended: the item number is the entry's 1-based position among
\* the selected entries and the total is the number selected: the k-th
\* signal carries k of n (1/2 and 2/2 when the second of three entries is
\* deselected).
C19_NumberIsSelectionPosition ==
    \A w \in Slots :
        LET r == workers[w]
            p == Processing(r)
        IN  AllFirstTime(r) =>
              /\ Len(p) = Len(r.selected_indices)
              /\ \A k \in 1..Len(p) :
                    /\ p[k].index = k
                    /\ p[k].total = Len(r.selected_indices)
                    /\ p[k].num = 1

\* three entries, the second deselected, both fetches returned
C19_SecondOfThreeDeselected ==
    \E w \in Slots :
        LET r == workers[w] IN
        /\ AllFirstTime(r)
        /\ r.selected_indices = <<0, 2>>
        /\ Len(r.selected_entries) = 2
        /\ Len(Processing(r)) = 2

\* ---------------------------------------------------- output folder
\* C20: the output template has the sanitized playlist title as a subfolder
\* only when the dialog was accepted with the folder box ticked: with it
\* ticked the files go under {output_dir}/{sanitized title}, a directory
\* that exists before the first fetch (the output directory itself when
\* nothing is left of the title), and with it unticked they go under
\* {output_dir}.
C20_SubfolderOnlyWhenAsked ==
    \A w \in Slots :
        LET r == workers[w] IN
        PlaylistRun(r) =>
            /\ IF r.create_folder
               THEN r.outtmpl = path_join(OutputDir, sanitize_filename(r.info_title))
               ELSE r.outtmpl = OutputDir
            /\ r.outtmpl # OutputDir => r.create_folder
            /\ r.outtmpl \in dirs

\* a playlist worker is fetching into the folder made for its title
C20_FetchingIntoSubfolder ==
    \E w \in Slots :
        LET r == workers[w] IN
        /\ PlaylistRun(r) /\ r.pc = "fetching"
        /\ r.create_folder
        /\ r.info_title = <<" ", "a", ":">>
        /\ r.outtmpl = <<"out", <<"a", "_">>>>
        /\ r.outtmpl \in dirs


\* ------------------------------------------------------------------ C21
\* the progress signals a worker's hook has emitted
HookProgress(w) ==
    SelectSeq(workers[w].log, LAMBDA e : e.sig = "progress")
\* what 'NN.N%' reads as, in tenths of a percent; every other text reads as 0
PercentRead ==
    (" 50.0%" :> 500) @@ ("12.5%" :> 125) @@ ("100%" :> 1000) @@
    ("N/A" :> 0) @@ ("^[[94m 50.0%^[[0m" :> 0)

\* C21: the progress hook answers each call of the collaborator with exactly
\* one progress signal, raises nothing and leaves the retry state alone: a
\* 'downloading' call gives the percentage read from 'NN.N%' (0 when the text
\* is missing or does not parse), a 'finished' call gives "Download complete.
\* Converting to {FORMAT}..." at 100 with the worker's format in capitals, an
\* 'error' call gives "Error occurred, retrying..." at 0.
C21_HookOneProgressEach ==
    \A w \in Slots :
        LET r == workers[w] IN
        r.cls = "updatemain.DownloadWorker" =>
            /\ Len(HookProgress(w)) = r.hooks
            /\ r.attempt = 0
            /\ uncaught = ""
            /\ r.hooks > 0 => r.pc \in {"download", "done"}
            /\ \A i \in 1..Len(HookProgress(w)) :
                  LET e == HookProgress(w)[i] IN
                  \/ /\ e.msg = "Downloading..."
                     /\ e.num = PercentRead[e.text]
                  \/ /\ e.msg = "Download complete. Converting to"
                     /\ e.num = 100 * 10
                     /\ e.text \in DOMAIN FORMAT_PRESETS
                     /\ FORMAT_PRESETS[e.text] = r.format
                  \/ /\ e.msg = "Error occurred, retrying..."
                     /\ e.num = 0

\* the hook was called with ' 50.0%' and then with 'finished' for a FLAC download
C21_HalfThenConverting ==
    \E w \in Slots :
        /\ workers[w].format = "flac"
        /\ workers[w].pc = "download"
        /\ HookProgress(w) = <<EvDownloading(" 50.0%"), EvConverting("flac")>>
        /\ HookProgress(w)[1].num = 500
        /\ HookProgress(w)[2].text = "FLAC"

\* ------------------------------------------------------------------ C22
\* C22: the history entry a Finished run appends carries the URL field, the
\* format and the quality as the window shows them when finished arrives,
\* whatever the worker was started with: when the URL field was edited while
\* the download ran, the entry's url is not the URL that was downloaded.
C22_EntryFromFieldsAtFinish ==
    [][\A w \in Slots :
          workers'[w].hist_adds = workers[w].hist_adds + 1 =>
              /\ history_file'.kind = "json"
              /\ history_file'.data # <<>>
              /\ LET entry == history_file'.data[Len(history_file'.data)] IN
                 /\ entry.url = url_input
                 /\ entry.format = FORMAT_PRESETS[format_combo]
                 /\ entry.quality = QUALITY_PRESETS[quality_combo]
                 /\ url_input # workers[w].url => entry.url # workers[w].url]_vars

\* "u1" was downloaded as mp3 at 320 and the one entry names "u2", flac, 96
C22_EntryOfOtherDownload ==
    \E w \in Slots :
        /\ workers[w].pc = "done"
        /\ workers[w].hist_adds = 1
        /\ workers[w].url = "u1"
        /\ workers[w].format = "mp3"
        /\ workers[w].quality = "320"
        /\ history_file = JsonFile(<<HistoryItem(0, "u2", "flac", "96")>>)

\* ------------------------------------------------------------------ C23
\* C23: whatever the user does (Convert, Enter, answering the dialog), at
\* most one worker is running at any time, and no worker is started while an
\* earlier one is still fetching.
C23_AtMostOneWorker ==
    /\ Cardinality({w \in DOMAIN workers : Alive(w)}) <= 1
    /\ \A w \in DOMAIN workers :
          workers[w].pc = "fetching" =>
              \A v \in DOMAIN workers \ {w} : workers[v].pc \notin {"probe", "fetching"}

\* ------------------------------------------------------------------ C24
\* C24: from the moment start_download accepts a run until the run's last
\* event the Convert button is disabled: as long as a worker of the run is
\* probing, fetching or waiting to retry, or the dialog is open, and so also
\* while items of a playlist are still to be fetched, the button is off.
C24_ButtonOffDuringRun ==
    /\ dialogs # <<>> => ~download_btn
    /\ \A w \in Slots :
          workers[w].pc \in {"probe", "attempt", "fetching", "sleep"} => ~download_btn

\* ------------------------------------------------------------------ C25
\* C25: the entries the playlist worker fetches are exactly the entries the
\* user ticked in the dialog, also when the worker's own probe returns
\* another list than the one the dialog showed (shorter, longer, reordered):
\* once the worker is past its probe it works through the ticked entries, and
\* its run does not end without them.
C25_FetchesTheTickedEntries ==
    \A w \in Slots :
        LET r == workers[w] IN
        (r.cls = "PlaylistDownloadWorker" /\ r.decision = "accepted" /\ r.probes > 0
            /\ ~r.probe_error) =>
            /\ r.selected_entries = r.checked_entries
            /\ \A k \in 1..Len(r.items) :
                  r.items[k].fetches > 0 => r.selected_entries[k] = r.checked_entries[k]

\* ------------------------------------------------------------------ C26
\* C26: when every probe and every fetch returns and the user closes the
\* dialog, each run start_download accepts gets the Convert button enabled
\* again, on every path: the button, once disabled, is enabled later on.
C26_ButtonEnabledAgain == (~download_btn) ~> download_btn
====
